---- MODULE Spec2Model ----
(***************************************************************************)
(* Verification model of the authorization caching gateway                 *)
(* (AbduAllahGabbar/service).                                              *)
(*                                                                         *)
(*   SpecService  the Roles Service: cache-aside GetUserRoles with the     *)
(*                single-flight group and the retrying fetch, and the      *)
(*                write operations with their invalidation                 *)
(*   SpecCleanup  the cache store's cleanup passes (runRemoveRoleJob and   *)
(*                RemoveRoleFromAllCaches, in both copies of package       *)
(*                cache) running against concurrent cache traffic          *)
(*   SpecJobs     two cleanup jobs side by side over a cache that nothing  *)
(*                else writes                                              *)
(*   SpecStore    the redisCache on its own: SetRoles, GetRoles and        *)
(*                InvalidateRoles, with the JSON encoding of the value     *)
(*   SpecBreaker  the Upstream Client's doRequest: retrying HTTP client    *)
(*                inside the circuit breaker                               *)
(*                                                                         *)
(* The specifications share the variables below; each one leaves the       *)
(* variables of the others at their initial values.                        *)
(***************************************************************************)
EXTENDS Integers, Sequences, FiniteSets, TLC

VARIABLES
    cache,      \* the store's roles:<user> keys: rolesValue and remaining TTL
    jobs,       \* the store's job:roles_cleanup:<id> keys: CleanupJobStatus
    wk,         \* the cleanup goroutines / RemoveRoleFromAllCaches calls
    idp,        \* the IdP's grants per user, each grant a list of role keys
    idpVer,     \* history: number of successful upstream writes per user
    pc,         \* each caller's position in its Service operation
    op,         \* each caller's current operation and arguments
    loc,        \* each caller's local variables (roles, err, retry count)
    res,        \* what each caller's last operation returned
    cancelled,  \* whether the caller's ctx has been cancelled
    group,      \* singleflight.Group: the in-flight call per key roles:<user>
    hist,       \* history counters of the service (ops, fetch ids, ...)
    cb          \* the Upstream Client's circuit breaker and the calls through it

storeVars == <<cache, jobs, wk>>
svcVars == <<idp, idpVer, pc, op, loc, res, cancelled, group, hist>>
vars == <<cache, jobs, wk, idp, idpVer, pc, op, loc, res, cancelled, group, hist, cb>>

(***************************************************************************)
(* Bounds of the model.                                                    *)
(***************************************************************************)
MaxOps == 3         \* Service operations started in one behaviour
MaxTries == 2       \* upstream attempts of one backoff.Retry
MaxPuts == 2        \* calls of SetRoles followed on the bare cache

\* the concurrent callers of the Roles Service (HTTP handler goroutines)
Callers == {1, 2}
\* the cleanup passes followed; a specification lets hist.slots of them run
\* (what else runs beside a pass is an Env_ action)
Workers == {1, 2}
Users == {"u1", "u2"}
\* the users the callers of the Roles Service ask about (operations on
\* different users share no state, DeleteRole apart)
SvcUsers == {"u1"}
Roles == {"r1", "r2"}
\* role lists a caller may pass to AssignRolesToUser
RoleLists == {<<>>, <<"r1", "r2">>}

(***************************************************************************)
(* The cache store (Redis).  TTLs are kept in milliseconds, as the store   *)
(* keeps them; NoExpiry and KeyMissing are the TTL command's sentinels.    *)
(***************************************************************************)
DefaultTTL == 300   \* seconds: redisCache.defaultTTL, from CACHE_TTL
CacheTTL == 300     \* seconds: Service.ttl, from CACHE_TTL
NoExpiry == -1
KeyMissing == -2

\* a key of the store: the value (roles, version), the time it has left (ttl,
\* milliseconds, NoExpiry for none) and history fields: ver, the IdP version
\* the list was read at; wid, the number of the fill that wrote it; rem and
\* exp, for a cleanup rewrite the time left that its TTL query saw and the
\* expiration it passed to Set (0 for none)
NoEntry ==
    [present |-> FALSE, roles |-> <<>>, ttl |-> 0, version |-> "",
     ver |-> 0, wid |-> 0, rem |-> 0, exp |-> 0]

\* time.Duration of d seconds, in milliseconds
Millis(d) == d * 1000

\* rdb.Set(key, value, expiration), expiration in milliseconds: 0 stores the
\* key without expiry
StoreSet(roles, version, expiration, ver, wid) ==
    [present |-> TRUE, roles |-> roles, version |-> version,
     ttl |-> IF expiration = 0 THEN NoExpiry ELSE expiration,
     ver |-> ver, wid |-> wid, rem |-> 0, exp |-> 0]

\* a string with bytes that are no valid UTF-8, and what json.Marshal writes
\* for it (the replacement character)
Malformed == "<ff>"
Replaced == "<fffd>"

\* the tokens of JSON text
Punct(p) == [t |-> "punct", v |-> p]
Str(x) == [t |-> "string", v |-> IF x = Malformed THEN Replaced ELSE x]

RECURSIVE Elements(_)
\* the elements of a JSON array, with the commas between them
Elements(roles) ==
    IF Len(roles) = 0 THEN <<>>
    ELSE IF Len(roles) = 1 THEN <<Str(roles[1])>>
    ELSE <<Str(roles[1]), Punct(",")>> \o Elements(Tail(roles))

\* json.Marshal of the Roles field of a rolesValue: the array of the strings,
\* in order
Marshal(roles) == <<Punct("[")>> \o Elements(roles) \o <<Punct("]")>>

\* a variant of the decoding that keeps the first occurrence of a role only
Unmarshal_NoDup(b) ==
    LET n == (Len(b) - 1) \div 2
        all == [k \in 1..n |-> b[2 * k].v]
        first(k) == \A j \in 1..(k - 1) : all[j] # all[k]
        keep == {k \in 1..n : first(k)}
        rank(k) == Cardinality({j \in keep : j <= k})
    IN [i \in 1..Cardinality(keep) |-> all[CHOOSE k \in keep : rank(k) = i]]

\* json.Unmarshal into rolesValue.Roles: the strings of the array, in order
Unmarshal(b) == [k \in 1..((Len(b) - 1) \div 2) |-> b[2 * k].v]

\* redisCache.SetRoles: the value is the JSON of rolesValue{roles, now,
\* "v1"} (the entry keeps the list the stored text decodes to); ttl 0 means
\* the default TTL
SetRoles(roles, ttl, ver, wid) ==
    StoreSet(Unmarshal(Marshal(roles)), "v1",
             Millis(IF ttl = 0 THEN DefaultTTL ELSE ttl), ver, wid)

\* redisCache.GetRoles on entry e when the store answers: redis.Nil gives
\* (nil, false, nil), a value gives (v.Roles, true, nil)
GetRoles(e) ==
    IF e.present THEN [roles |-> e.roles, ok |-> TRUE, err |-> ""]
    ELSE [roles |-> <<>>, ok |-> FALSE, err |-> ""]

\* CleanupJobStatus
NoJob ==
    [present |-> FALSE, role |-> "", processed |-> 0, updated |-> 0,
     status |-> "", finished |-> FALSE, error |-> ""]

NewStatus(role) ==
    [present |-> TRUE, role |-> role, processed |-> 0, updated |-> 0,
     status |-> "running", finished |-> FALSE, error |-> ""]

\* a pass over the cache: pc, the step it is at; job, whether it is a job's
\* worker (runRemoveRoleJob) or a call of RemoveRoleFromAllCaches; the locals
\* role, cursor, keys, vals, pipe, status, updated, and i, the index of the
\* range loop; b, the value the per-key copy holds between Get and Set; and
\* history fields: atStart, the keys present when the pass was started;
\* passed, the keys SCAN has returned or gone past; dirty, the passed keys
\* that something else wrote since; orig, the entries as they were when the
\* pass was started; calm, whether the pass has met no failing store command
\* (one the code itself got wrong apart) and nothing else has changed the
\* cache since it was started; applied, the number of its rewrites that the
\* store has carried out
FreeWorker ==
    [pc |-> "free", job |-> FALSE, role |-> "", cursor |-> 0, keys |-> <<>>,
     vals |-> <<>>, i |-> 0, pipe |-> <<>>, status |-> NoJob, updated |-> 0,
     err |-> "", b |-> NoEntry, setTTL |-> 0, atStart |-> {}, passed |-> {},
     dirty |-> {}, orig |-> [u \in Users |-> NoEntry], calm |-> TRUE,
     applied |-> 0]

\* an entry as a pass remembers it: of the time left only whether there is
\* any (time passes while the pass runs)
Original(e) == [e EXCEPT !.ttl = IF @ > 0 THEN 1 ELSE @]

\* go func(j, r) { runRemoveRoleJob(context.Background(), j, r) }
SpawnedWorker(role) ==
    [FreeWorker EXCEPT !.pc = "start", !.job = TRUE, !.role = role,
                       !.status = NewStatus(role),
                       !.atStart = {u \in Users : cache[u].present},
                       !.orig = [u \in Users |-> Original(cache[u])]]

\* pass x after a step whose store commands did, or did not, all succeed
\* (orig is kept for calm passes only)
Mark(x, good) ==
    IF x.calm /\ good THEN x
    ELSE [x EXCEPT !.calm = FALSE, !.orig = [u \in Users |-> NoEntry]]

FreeSlots == {w \in Workers : w <= hist.slots /\ wk[w].pc = "free"}

(***************************************************************************)
(* The IdP, seen through the Upstream Client.                              *)
(***************************************************************************)
RECURSIVE Flatten(_)
\* httpClient.GetUserRoles: roleKeys of every grant, concatenated in order
Flatten(grants) ==
    IF grants = <<>> THEN <<>>
    ELSE Head(grants) \o Flatten(Tail(grants))

Contains(s, r) == \E k \in 1..Len(s) : s[k] = r

\* the grant RemoveRoleFromUser picks: the loop keeps the last match
GrantToDelete(grants, r) ==
    LET hits == {k \in 1..Len(grants) : Contains(grants[k], r)}
    IN IF hits = {} THEN 0 ELSE CHOOSE k \in hits : \A h \in hits : h <= k

DeleteGrant(grants, k) ==
    SubSeq(grants, 1, k - 1) \o SubSeq(grants, k + 1, Len(grants))

RECURSIVE Without(_, _)
\* the role list without any occurrence of r, order kept
Without(s, r) ==
    IF s = <<>> THEN <<>>
    ELSE IF Head(s) = r THEN Without(Tail(s), r)
    ELSE <<Head(s)>> \o Without(Tail(s), r)

RECURSIVE IdpDeleteRole(_, _)
\* the IdP's own effect of deleting a project role: the key leaves every grant
IdpDeleteRole(grants, r) ==
    IF grants = <<>> THEN <<>>
    ELSE <<Without(Head(grants), r)>> \o IdpDeleteRole(Tail(grants), r)

(***************************************************************************)
(* Roles Service: callers.                                                 *)
(***************************************************************************)
NoOp == [kind |-> "none", u |-> "", r |-> "", rs |-> <<>>, id |-> 0]
NoLoc ==
    [roles |-> <<>>, err |-> "", tries |-> 0, ver |-> 0, fid |-> 0, last |-> ""]
NoRes ==
    [kind |-> "none", id |-> 0, u |-> "", ok |-> FALSE, roles |-> <<>>, err |-> "",
     uerr |-> "", how |-> "", fid |-> 0, ver |-> 0, wid |-> 0]
NoCall == [active |-> FALSE, fid |-> 0]
NoWrite == [set |-> FALSE, u |-> "", ver |-> 0, mark |-> 0]

ReadKinds == {"GetUserRoles"}
WriteKinds == {"AssignRole", "AssignRolesToUser", "RemoveRoleFromUser", "DeleteRole"}

\* The Upstream Client's circuit breaker and retrying HTTP client: settings.
RetryMax == 3           \* cfg.RetryMax
CBMaxRequests == 5      \* cfg.CBMaxRequests
TripFailures == 5       \* ReadyToTrip: counts.ConsecutiveFailures >= 5
TripRequests == 10      \* ReadyToTrip: counts.Requests >= 10
MaxCalls == 6           \* calls of doRequest in one behaviour
MaxRolls == 1           \* counting intervals that run out in one behaviour

\* gobreaker.Counts after clear()
NoCounts ==
    [requests |-> 0, totalSuccesses |-> 0, totalFailures |-> 0,
     consecutiveSuccesses |-> 0, consecutiveFailures |-> 0]

\* a caller's call of doRequest: pc, where it is; generation, the one
\* beforeRequest gave it; attempts, the HTTP requests sent; success, what the
\* closure returned; and history fields: streak, the failed operations in a
\* row when it began; probe, whether it was let in half-open
NoRequest ==
    [pc |-> "idle", generation |-> 0, attempts |-> 0, success |-> FALSE,
     streak |-> 0, probe |-> FALSE]

\* the breaker as NewCircuitBreaker leaves it: closed, generation 0.  due: the
\* expiry of the current generation has passed (the counting interval of the
\* closed state, the timeout of the open state); started, streak, rolls
\* and opened are history: the calls begun, the failed operations in a row,
\* the intervals run out, the generation in which the breaker last opened
NewCircuitBreaker ==
    [state |-> "closed", generation |-> 0, counts |-> NoCounts, due |-> FALSE,
     calls |-> [c \in Callers |-> NoRequest], started |-> 0, streak |-> 0,
     rolls |-> 0, opened |-> 0]

\* the history variable at the start; impl names the copy of package cache
\* the build holds: "batch" (MGet and pipeline) or "single" (key by key);
\* slots is the number of cleanup passes followed; put and got keep, for a
\* key, the list and number of the last SetRoles that succeeded and the last
\* answer of GetRoles with the number of the SetRoles whose value it read
NoHist(impl, slots) ==
    [ops |-> 0, wclock |-> 0,
     ucCalls |-> [u \in Users |-> 0],
     miss |-> [u \in Users |-> "none"],
     lastW |-> [c \in Callers |-> NoWrite],
     impl |-> impl, slots |-> slots, env |-> 0,
     put |-> [u \in Users |-> [n |-> 0, roles |-> <<>>]],
     got |-> [u \in Users |-> [n |-> 0, roles |-> <<>>, ok |-> FALSE, err |-> ""]],
     seen |-> [w \in Workers |-> [processed |-> 0, updated |-> 0]]]

InitService ==
    /\ cache = [u \in Users |-> NoEntry]
    /\ jobs = [w \in Workers |-> NoJob]
    /\ wk = [w \in Workers |-> FreeWorker]
    /\ idp = [u \in Users |-> << <<"r1", "r2">> >>]
    /\ idpVer = [u \in Users |-> 0]
    /\ pc = [c \in Callers |-> "idle"]
    /\ op = [c \in Callers |-> NoOp]
    /\ loc = [c \in Callers |-> NoLoc]
    /\ res = [c \in Callers |-> NoRes]
    /\ cancelled = [c \in Callers |-> FALSE]
    /\ group = [u \in Users |-> NoCall]
    /\ hist = NoHist("batch", 1)
    /\ cb = NewCircuitBreaker

\* history: user u's reads no longer form one cold miss answered successfully
Broken(u) == [hist.miss EXCEPT ![u] = "broken"]
Cold(u) == [hist.miss EXCEPT ![u] = IF @ = "none" THEN "cold" ELSE @]

\* the operation a caller is about to start: its arguments and its number
NewOp(kind, u, r, rs) == [kind |-> kind, u |-> u, r |-> r, rs |-> rs, id |-> hist.ops + 1]

\* history kept when caller c starts operation o
Started(c, o) ==
    [hist EXCEPT
        !.ops = @ + 1,
        !.miss = IF o.kind \in {"AssignRole", "AssignRolesToUser", "RemoveRoleFromUser"}
                 THEN Broken(o.u)
                 ELSE IF o.kind = "DeleteRole" THEN [x \in Users |-> "broken"]
                 ELSE hist.miss,
        !.lastW[c] = IF o.kind = "GetUserRoles" /\ @.set /\ @.u = o.u THEN @ ELSE NoWrite]

\* caller c is free to start an operation (the HTTP handlers of main.go)
CanCall(c) == pc[c] = "idle" /\ hist.ops < MaxOps

\* the caller's operation o returns r
Return(c, r) ==
    /\ pc' = [pc EXCEPT ![c] = "idle"]
    /\ op' = [op EXCEPT ![c] = NoOp]
    /\ loc' = [loc EXCEPT ![c] = NoLoc]
    /\ res' = [res EXCEPT ![c] = r]

\* the caller's operation o moves on to step p with locals l
Goto(c, o, p, l) ==
    /\ pc' = [pc EXCEPT ![c] = p]
    /\ op' = [op EXCEPT ![c] = o]
    /\ loc' = [loc EXCEPT ![c] = l]
    /\ res' = [res EXCEPT ![c] = NoRes]

Returned(o, ok, roles, err, how, fid, ver, wid) ==
    [kind |-> o.kind, id |-> o.id, u |-> o.u, ok |-> ok, roles |-> roles,
     err |-> err, uerr |-> "", how |-> how, fid |-> fid, ver |-> ver, wid |-> wid]

\* The ctx of a caller blocked in the group (running the fetch, or waiting for
\* it) is cancelled.  At the other steps a cancelled ctx only makes the store
\* or upstream call fail, which those steps allow anyway.
Cancel(c) ==
    /\ pc[c] \in {"fetch", "wait"}
    /\ ~cancelled[c]
    /\ cancelled' = [cancelled EXCEPT ![c] = TRUE]
    /\ hist' = [hist EXCEPT !.miss = Broken(op[c].u)]
    /\ UNCHANGED <<storeVars, idp, idpVer, pc, op, loc, res, group>>
    /\ UNCHANGED cb

\* GetUserRoles, step 1: the call arrives and s.cache.GetRoles is asked.  A
\* hit returns; a miss and a store error both fall through to the group.
GetUserRoles_Lookup(c) ==
    /\ CanCall(c)
    /\ \E u \in SvcUsers, storeOK \in BOOLEAN :
          LET o == NewOp("GetUserRoles", u, "", <<>>)
              h == Started(c, o)
          IN
          IF storeOK /\ cache[u].present
          THEN /\ Return(c, Returned(o, TRUE, cache[u].roles, "", "hit", 0,
                                     cache[u].ver, cache[u].wid))
               /\ hist' = [h EXCEPT !.miss[u] = "broken"]
          ELSE /\ Goto(c, o, "do", NoLoc)
               /\ hist' = [h EXCEPT !.miss[u] =
                              IF ~storeOK THEN "broken" ELSE IF @ = "none" THEN "cold" ELSE @]
    /\ cancelled' = [cancelled EXCEPT ![c] = FALSE]
    /\ UNCHANGED <<storeVars, idp, idpVer, group>>
    /\ UNCHANGED cb

\* a variant without coalescing: every caller runs the closure itself
GetUserRoles_Do_NoGroup(c) ==
    LET u == op[c].u IN
    /\ pc[c] = "do"
    /\ group' = [group EXCEPT ![u] = [active |-> TRUE, fid |-> op[c].id]]
    /\ Goto(c, op[c], "fetch", [NoLoc EXCEPT !.fid = op[c].id])
    /\ UNCHANGED <<storeVars, idp, idpVer, cancelled, hist>>
    /\ UNCHANGED cb

\* GetUserRoles, step 2: s.group.Do("roles:"+userID, fn).  With a call in
\* flight for the key the caller waits for it; otherwise it registers a call
\* and runs fn itself.  (fid names the call: the number of the leader's
\* operation.)
GetUserRoles_Do(c) ==
    LET u == op[c].u IN
    /\ pc[c] = "do"
    /\ IF group[u].active
       THEN /\ Goto(c, op[c], "wait", [NoLoc EXCEPT !.fid = group[u].fid])
            /\ UNCHANGED group
       ELSE /\ group' = [group EXCEPT ![u] = [active |-> TRUE, fid |-> op[c].id]]
            /\ Goto(c, op[c], "fetch", [NoLoc EXCEPT !.fid = op[c].id])
    /\ UNCHANGED <<storeVars, idp, idpVer, cancelled, hist>>
    /\ UNCHANGED cb

\* a variant whose fetch does not run under the caller's ctx
GetUserRoles_Fetch_Detached(c) ==
    LET u == op[c].u IN
    /\ pc[c] = "fetch"
    /\ \E answer \in {"ok", "4xx", "error"}, again \in BOOLEAN :
          LET ucOK == answer = "ok" IN
          /\ ucOK => ~again
          /\ again => loc[c].tries + 1 < MaxTries
          /\ IF ucOK
             THEN Goto(c, op[c], "fill", [loc[c] EXCEPT !.roles = Flatten(idp[u]),
                                                        !.ver = idpVer[u],
                                                        !.tries = @ + 1,
                                                        !.last = ""])
             ELSE Goto(c, op[c], IF again THEN "fetch" ELSE "complete",
                       [loc[c] EXCEPT !.tries = @ + 1,
                                      !.last = IF again THEN answer ELSE "",
                                      !.err = IF again THEN "" ELSE "upstream"])
          /\ hist' = [hist EXCEPT !.ucCalls[u] = @ + 1,
                                  !.miss = IF ucOK THEN @ ELSE Broken(u)]
    /\ UNCHANGED <<storeVars, idp, idpVer, cancelled, group>>
    /\ UNCHANGED cb

\* GetUserRoles, step 3: one run of op inside backoff.Retry, that is one call
\* of s.zitadel.GetUserRoles, which the IdP answers with roles ("ok") or
\* with a 4xx status ("4xx"), or which fails otherwise ("error": 5xx,
\* transport, open breaker, ctx done).  Retry treats every error alike:
\* it either sleeps and tries again or gives up (MaxElapsedTime, or the ctx
\* is done) and fn returns the error.  (last: how the last run of op failed,
\* while Retry is about to try again.)
GetUserRoles_Fetch(c) ==
    LET u == op[c].u IN
    /\ pc[c] = "fetch"
    /\ \E answer \in {"ok", "4xx", "error"}, again \in BOOLEAN :
          LET ucOK == answer = "ok" IN
          /\ cancelled[c] => answer = "error" /\ ~again
          /\ ucOK => ~again
          /\ again => loc[c].tries + 1 < MaxTries
          /\ IF ucOK
             THEN Goto(c, op[c], "fill", [loc[c] EXCEPT !.roles = Flatten(idp[u]),
                                                        !.ver = idpVer[u],
                                                        !.tries = @ + 1,
                                                        !.last = ""])
             ELSE Goto(c, op[c], IF again THEN "fetch" ELSE "complete",
                       [loc[c] EXCEPT !.tries = @ + 1,
                                      !.last = IF again THEN answer ELSE "",
                                      !.err = IF again THEN ""
                                              ELSE IF cancelled[c] THEN "context canceled"
                                              ELSE "upstream"])
          /\ hist' = [hist EXCEPT !.ucCalls[u] = @ + 1,
                                  !.miss = IF ucOK THEN @ ELSE Broken(u)]
    /\ UNCHANGED <<storeVars, idp, idpVer, cancelled, group>>
    /\ UNCHANGED cb

\* a variant in which fn returns the error of SetRoles
GetUserRoles_Fill_Strict(c) ==
    LET u == op[c].u IN
    /\ pc[c] = "fill"
    /\ \E storeOK \in BOOLEAN :
          IF storeOK
          THEN /\ cache' = [cache EXCEPT ![u] =
                     SetRoles(loc[c].roles, CacheTTL, loc[c].ver, hist.wclock + 1)]
               /\ hist' = [hist EXCEPT !.wclock = @ + 1]
               /\ Goto(c, op[c], "complete", loc[c])
          ELSE /\ hist' = [hist EXCEPT !.miss = Broken(u)]
               /\ Goto(c, op[c], "complete", [loc[c] EXCEPT !.err = "store"])
               /\ UNCHANGED cache
    /\ UNCHANGED <<jobs, wk, idp, idpVer, cancelled, group>>
    /\ UNCHANGED cb

\* GetUserRoles, step 4: _ = s.cache.SetRoles(ctx, userID, roles, s.ttl); the
\* error is dropped.  s.ttl is the configured CACHE_TTL.
GetUserRoles_Fill(c) ==
    LET u == op[c].u IN
    /\ pc[c] = "fill"
    /\ \E storeOK \in BOOLEAN :
          IF storeOK
          THEN /\ cache' = [cache EXCEPT ![u] =
                     SetRoles(loc[c].roles, CacheTTL, loc[c].ver, hist.wclock + 1)]
               /\ hist' = [hist EXCEPT !.wclock = @ + 1]
          ELSE /\ hist' = [hist EXCEPT !.miss = Broken(u)]
               /\ UNCHANGED cache
    /\ Goto(c, op[c], "complete", loc[c])
    /\ UNCHANGED <<jobs, wk, idp, idpVer, cancelled, group>>
    /\ UNCHANGED cb

\* a variant in which a caller whose own ctx is done reports that instead
GroupResult_OwnCtx(c, l, how) ==
    IF cancelled[c] THEN Returned(op[c], FALSE, <<>>, "context canceled", how, l.fid, 0, 0)
    ELSE IF l.err # "" THEN Returned(op[c], FALSE, <<>>, l.err, how, l.fid, 0, 0)
    ELSE Returned(op[c], TRUE, l.roles, "", how, l.fid, l.ver, 0)

\* what GetUserRoles returns from the group's (v, err): the error, else the
\* roles (v always holds a []string when err is nil)
GroupResult(c, l, how) ==
    IF l.err # "" THEN Returned(op[c], FALSE, <<>>, l.err, how, l.fid, 0, 0)
    ELSE Returned(op[c], TRUE, l.roles, "", how, l.fid, l.ver, 0)

Waiting(u, fid) ==
    {f \in Callers : pc[f] = "wait" /\ op[f].u = u /\ loc[f].fid = fid}

\* GetUserRoles, step 5: fn has returned.  The group stores (v, err) in the
\* call, releases the waiting callers and forgets the key; the leader returns.
GetUserRoles_Complete(c) ==
    LET u == op[c].u
        followers == Waiting(u, loc[c].fid)
    IN
    /\ pc[c] = "complete"
    /\ group' = [group EXCEPT ![u] = NoCall]
    /\ loc' = [f \in Callers |-> IF f \in followers THEN [loc[c] EXCEPT !.tries = 0]
                                 ELSE IF f = c THEN NoLoc ELSE loc[f]]
    /\ pc' = [f \in Callers |-> IF f \in followers THEN "ret"
                                ELSE IF f = c THEN "idle" ELSE pc[f]]
    /\ op' = [op EXCEPT ![c] = NoOp]
    /\ res' = [res EXCEPT ![c] = GroupResult(c, loc[c], "leader")]
    /\ UNCHANGED <<storeVars, idp, idpVer, cancelled, hist>>
    /\ UNCHANGED cb

\* A caller that waited on the in-flight call returns the call's (v, err).
GetUserRoles_Return(c) ==
    /\ pc[c] = "ret"
    /\ Return(c, GroupResult(c, loc[c], "follower"))
    /\ UNCHANGED <<storeVars, idp, idpVer, cancelled, group, hist>>
    /\ UNCHANGED cb

(***************************************************************************)
(* Roles Service: write operations.  Each calls the Upstream Client first  *)
(* and touches the cache store only after it succeeded.                    *)
(***************************************************************************)
\* if err := s.zitadel.X(...); err != nil { return err }
UpstreamFailed(c, o, e) ==
    /\ Return(c, [Returned(o, FALSE, <<>>, e, "write", 0, 0, 0) EXCEPT !.uerr = e])
    /\ UNCHANGED <<storeVars, idp, idpVer>>

\* the upstream accepted the write to user o.u: on to the cache step
UpstreamWrote(c, o, next) ==
    /\ Goto(c, o, next, [NoLoc EXCEPT !.ver = idpVer'[o.u]])
    /\ UNCHANGED storeVars

\* a variant that drops the cached entry before it asks the upstream
AssignRole_InvalidateFirst(c) ==
    /\ CanCall(c)
    /\ \E u \in SvcUsers, ucOK \in BOOLEAN :
          LET o == NewOp("AssignRole", u, "r2", <<>>) IN
          /\ cache' = [cache EXCEPT ![u] = NoEntry]
          /\ hist' = Started(c, o)
          /\ IF ucOK
             THEN /\ idp' = [idp EXCEPT ![u] = Append(@, <<o.r>>)]
                  /\ idpVer' = [idpVer EXCEPT ![u] = @ + 1]
                  /\ Goto(c, o, "inv", [NoLoc EXCEPT !.ver = idpVer'[u]])
             ELSE /\ Return(c, [Returned(o, FALSE, <<>>, "upstream", "write", 0, 0, 0)
                                  EXCEPT !.uerr = "upstream"])
                  /\ UNCHANGED <<idp, idpVer>>
    /\ cancelled' = [cancelled EXCEPT ![c] = FALSE]
    /\ UNCHANGED <<jobs, wk, group>>
    /\ UNCHANGED cb

\* Service.AssignRole: zitadel.AssignRoleToUser posts a grant holding the role.
AssignRole(c) ==
    /\ CanCall(c)
    /\ \E u \in SvcUsers, ucOK \in BOOLEAN :
          LET o == NewOp("AssignRole", u, "r2", <<>>) IN
          /\ hist' = Started(c, o)
          /\ IF ucOK
             THEN /\ idp' = [idp EXCEPT ![u] = Append(@, <<o.r>>)]
                  /\ idpVer' = [idpVer EXCEPT ![u] = @ + 1]
                  /\ UpstreamWrote(c, o, "inv")
             ELSE UpstreamFailed(c, o, "upstream")
    /\ cancelled' = [cancelled EXCEPT ![c] = FALSE]
    /\ UNCHANGED group
    /\ UNCHANGED cb

\* a variant without the test for an empty list: the Upstream Client is
\* called (it posts nothing for an empty list) and the entry invalidated
AssignRolesToUser_NoGuard(c) ==
    /\ CanCall(c)
    /\ \E u \in SvcUsers, rs \in RoleLists, ucOK \in BOOLEAN :
          LET o == NewOp("AssignRolesToUser", u, "", rs) IN
          /\ hist' = Started(c, o)
          /\ IF ucOK
             THEN /\ idp' = [idp EXCEPT ![u] = IF Len(rs) = 0 THEN @ ELSE Append(@, rs)]
                  /\ idpVer' = [idpVer EXCEPT ![u] = IF Len(rs) = 0 THEN @ ELSE @ + 1]
                  /\ UpstreamWrote(c, o, "inv")
             ELSE UpstreamFailed(c, o, "upstream")
    /\ cancelled' = [cancelled EXCEPT ![c] = FALSE]
    /\ UNCHANGED group
    /\ UNCHANGED cb

\* Service.AssignRolesToUser: an empty list returns nil at once; otherwise
\* zitadel.AssignRolesToUser posts one grant holding the list.
AssignRolesToUser(c) ==
    /\ CanCall(c)
    /\ \E u \in SvcUsers, rs \in RoleLists, ucOK \in BOOLEAN :
          LET o == NewOp("AssignRolesToUser", u, "", rs) IN
          IF Len(rs) = 0
          THEN /\ ucOK
               /\ hist' = [hist EXCEPT !.ops = @ + 1, !.lastW[c] = NoWrite]
               /\ Return(c, Returned(o, TRUE, <<>>, "", "noop", 0, 0, 0))
               /\ UNCHANGED <<storeVars, idp, idpVer>>
          ELSE /\ hist' = Started(c, o)
               /\ IF ucOK
                  THEN /\ idp' = [idp EXCEPT ![u] = Append(@, rs)]
                       /\ idpVer' = [idpVer EXCEPT ![u] = @ + 1]
                       /\ UpstreamWrote(c, o, "inv")
                  ELSE UpstreamFailed(c, o, "upstream")
    /\ cancelled' = [cancelled EXCEPT ![c] = FALSE]
    /\ UNCHANGED group
    /\ UNCHANGED cb

\* Service.RemoveRoleFromUser: zitadel.RemoveRoleFromUser searches the user's
\* grants and deletes the grant it picked; no grant with the role is an error.
RemoveRoleFromUser(c) ==
    /\ CanCall(c)
    /\ \E u \in SvcUsers, ucOK \in BOOLEAN :
          LET o == NewOp("RemoveRoleFromUser", u, "r1", <<>>)
              k == GrantToDelete(idp[u], o.r)
          IN
          /\ hist' = Started(c, o)
          /\ IF ucOK /\ k # 0
             THEN /\ idp' = [idp EXCEPT ![u] = DeleteGrant(@, k)]
                  /\ idpVer' = [idpVer EXCEPT ![u] = @ + 1]
                  /\ UpstreamWrote(c, o, "inv")
             ELSE UpstreamFailed(c, o, IF ucOK THEN "grant not found" ELSE "upstream")
    /\ cancelled' = [cancelled EXCEPT ![c] = FALSE]
    /\ UNCHANGED group
    /\ UNCHANGED cb

\* Service.DeleteRole: zitadel.DeleteRole, then the cleanup job.
DeleteRole(c) ==
    /\ CanCall(c)
    /\ Cardinality({x \in Callers : pc[x] = "job"}) < Cardinality(FreeSlots)
    /\ \E ucOK \in BOOLEAN :
          LET o == NewOp("DeleteRole", "", "r1", <<>>) IN
          /\ hist' = Started(c, o)
          /\ IF ucOK
             THEN /\ idp' = [u \in Users |-> IdpDeleteRole(idp[u], o.r)]
                  /\ idpVer' = [u \in Users |-> idpVer[u] + 1]
                  /\ Goto(c, o, "job", NoLoc)
                  /\ UNCHANGED storeVars
             ELSE UpstreamFailed(c, o, "upstream")
    /\ cancelled' = [cancelled EXCEPT ![c] = FALSE]
    /\ UNCHANGED group
    /\ UNCHANGED cb

\* a variant whose invalidation leaves the cached entry in place
InvalidateRoles_NoDel(c) ==
    LET u == op[c].u IN
    /\ pc[c] = "inv"
    /\ Return(c, Returned(op[c], TRUE, <<>>, "", "write", 0, loc[c].ver, 0))
    /\ hist' = [hist EXCEPT !.lastW[c] =
          [set |-> TRUE, u |-> u, ver |-> loc[c].ver, mark |-> hist.wclock]]
    /\ UNCHANGED <<storeVars, idp, idpVer, cancelled, group>>
    /\ UNCHANGED cb

\* return s.cache.InvalidateRoles(ctx, userID): rdb.Del, its error returned
InvalidateRoles(c) ==
    LET u == op[c].u IN
    /\ pc[c] = "inv"
    /\ \E storeOK \in BOOLEAN :
          IF storeOK
          THEN /\ cache' = [cache EXCEPT ![u] = NoEntry]
               /\ Return(c, Returned(op[c], TRUE, <<>>, "", "write", 0, loc[c].ver, 0))
               /\ hist' = [hist EXCEPT !.lastW[c] =
                     [set |-> TRUE, u |-> u, ver |-> loc[c].ver, mark |-> hist.wclock]]
          ELSE /\ Return(c, Returned(op[c], FALSE, <<>>, "store", "write", 0, 0, 0))
               /\ UNCHANGED <<cache, hist>>
    /\ UNCHANGED <<jobs, wk, idp, idpVer, cancelled, group>>
    /\ UNCHANGED cb

\* redisCache.StartRemoveRoleJob as DeleteRole calls it: persist the initial
\* record, start the worker goroutine; a failed Set returns the error and
\* starts nothing.  Job ids (time.Now().UnixNano()) are taken to be distinct.
StartRemoveRoleJob(c) ==
    /\ pc[c] = "job"
    /\ \E storeOK \in BOOLEAN :
          IF storeOK
          THEN \E w \in FreeSlots :
                  /\ \A x \in FreeSlots : w <= x
                  /\ jobs' = [jobs EXCEPT ![w] = NewStatus(op[c].r)]
                  /\ wk' = [wk EXCEPT ![w] = SpawnedWorker(op[c].r)]
                  /\ Return(c, Returned(op[c], TRUE, <<>>, "", "write", 0, 0, 0))
          ELSE /\ Return(c, Returned(op[c], FALSE, <<>>, "store", "write", 0, 0, 0))
               /\ UNCHANGED <<jobs, wk>>
    /\ UNCHANGED <<cache, idp, idpVer, cancelled, group, hist>>
    /\ UNCHANGED cb

\* A cached entry reaches the end of its TTL.
Expire(u) ==
    /\ cache[u].present
    /\ cache[u].ttl > 0
    /\ cache' = [cache EXCEPT ![u] = NoEntry]
    /\ hist' = [hist EXCEPT !.miss = Broken(u)]
    /\ wk' = [w \in Workers |-> Mark(wk[w], wk[w].pc = "free")]
    /\ UNCHANGED <<jobs, idp, idpVer, pc, op, loc, res, cancelled, group>>
    /\ UNCHANGED cb

NextService ==
    \/ \E c \in Callers :
          \/ Cancel(c)
          \/ GetUserRoles_Lookup(c)
          \/ GetUserRoles_Do(c)
          \/ GetUserRoles_Fetch(c)
          \/ GetUserRoles_Fill(c)
          \/ GetUserRoles_Complete(c)
          \/ GetUserRoles_Return(c)
          \/ AssignRole(c)
          \/ AssignRolesToUser(c)
          \/ RemoveRoleFromUser(c)
          \/ DeleteRole(c)
          \/ InvalidateRoles(c)
          \/ StartRemoveRoleJob(c)
    \/ \E u \in Users : Expire(u)

SpecService == InitService /\ [][NextService]_vars

(***************************************************************************)
(* The cleanup passes of package cache.  The repository holds two copies   *)
(* of the package: "batch" reads a SCAN page with MGet and writes it back  *)
(* through a pipeline; "single" reads, asks the TTL of and writes one key  *)
(* at a time.  A pass is either the worker of a job (runRemoveRoleJob) or  *)
(* a call of RemoveRoleFromAllCaches, which keeps no job record.           *)
(***************************************************************************)
ProgressEvery == 50     \* status.Processed%50 == 0
MaxEnv == 1             \* writes by other operations during the passes

\* the key space in the order SCAN walks it
KeyOrder == <<"u1", "u2">>
\* the times left (milliseconds) of the entries cached when the passes start,
\* and of an entry near its end
StartTTLs == {2400}
TTLSteps == {400}
\* the roles deleted at the IdP, for which passes are started
DeletedRoles == {"r1"}
\* the role lists found cached
CachedLists == {<<"r1", "r2">>, <<"r2">>}

\* the reply of the TTL command for a key: seconds, rounded to the nearest;
\* -1 for a key without expiry, -2 for a missing key
TTLReply(e) ==
    IF ~e.present THEN KeyMissing
    ELSE IF e.ttl = NoExpiry THEN NoExpiry
    ELSE (e.ttl + 500) \div 1000

\* rdb.TTL(...).Result(): the reply as a time.Duration; negative replies are
\* passed through unscaled
TTLResult(e) == IF TTLReply(e) < 0 THEN TTLReply(e) ELSE Millis(TTLReply(e))

\* what a successful TTL query looked at: the time left, or NoExpiry, or
\* KeyMissing (0: the query failed)
Remaining(e, ttlOK) ==
    IF ~ttlOK THEN 0 ELSE IF e.present THEN e.ttl ELSE KeyMissing

\* the batch copy's rule for the expiration of the rewrite
BatchTTL(e, ttlOK) ==
    IF ttlOK THEN (IF TTLResult(e) < 0 THEN 0 ELSE TTLResult(e))
    ELSE Millis(DefaultTTL)

\* the single copy's rule for the expiration of the rewrite
SingleTTL(e, ttlOK) ==
    IF ttlOK /\ TTLResult(e) > 0 THEN TTLResult(e) ELSE Millis(DefaultTTL)

\* a variant of the rewrite that keeps the list as it is
Cleaned_Keep(roles, r) == roles

\* newRoles: the list without the role
Cleaned(roles, r) == Without(roles, r)

\* the keys SCAN returns for the slots from..to: those present right now
PageKeys(from, to) ==
    SelectSeq(SubSeq(KeyOrder, from, to), LAMBDA u : cache[u].present)

\* the cursor SCAN returns after slot to: 0 once the walk is complete
NextCursor(to) == IF to = Len(KeyOrder) THEN 0 ELSE to

\* status.Processed++ (a job's worker only)
Seen(x) == IF x.job THEN [x EXCEPT !.status.processed = @ + 1] ELSE x

\* status.Updated++, or updated++ in RemoveRoleFromAllCaches
Rewrote(x) ==
    IF x.job THEN [x EXCEPT !.status.updated = @ + 1] ELSE [x EXCEPT !.updated = @ + 1]

\* the cleaned value a pass writes over entry e, with the history fields
Rewrite(e, r, expiration, rem) ==
    [StoreSet(Cleaned(e.roles, r), e.version, expiration, e.ver, 0)
        EXCEPT !.rem = rem, !.exp = expiration]

\* a variant whose record carries no counters once the pass has ended
Update_NoCounters(w, x, ok) ==
    IF x.job /\ ok
    THEN [jobs EXCEPT ![w] = IF x.status.status = "running" THEN x.status
                             ELSE [x.status EXCEPT !.processed = 0, !.updated = 0]]
    ELSE jobs

\* update(status): the record of job w is overwritten, unless the Set fails
\* (the error is dropped) or the pass is no job
Update(w, x, ok) ==
    IF x.job /\ ok THEN [jobs EXCEPT ![w] = x.status] ELSE jobs

\* the update made when status.Processed is a multiple of ProgressEvery
Progress(w, x, ok) ==
    IF x.status.processed % ProgressEvery = 0 THEN Update(w, x, ok) ELSE jobs

\* the error of an MGet sent without keys (wrong number of arguments)
NoKeys == "mget: no keys"

\* a variant that fails a job without setting status.FinishedAt
Fail_NoFinishedAt(w, x, e, ok) ==
    LET y == [Mark(x, ok /\ e = NoKeys)
                 EXCEPT !.pc = "exit", !.err = e,
                        !.status = IF x.job
                                   THEN [@ EXCEPT !.status = "failed", !.error = e]
                                   ELSE @]
    IN /\ wk' = [wk EXCEPT ![w] = y]
       /\ jobs' = Update(w, y, ok)

\* status.Status = "failed"; status.Error = err; status.FinishedAt = now;
\* _ = update(status); return err.  RemoveRoleFromAllCaches just returns the
\* error.
Fail(w, x, e, ok) ==
    LET y == [Mark(x, ok /\ e = NoKeys)
                 EXCEPT !.pc = "exit", !.err = e,
                        !.status = IF x.job
                                   THEN [@ EXCEPT !.status = "failed", !.error = e,
                                                  !.finished = TRUE]
                                   ELSE @]
    IN /\ wk' = [wk EXCEPT ![w] = y]
       /\ jobs' = Update(w, y, ok)

\* key u was written by something other than pass w: the passes that have
\* gone past u note it
Touched(workers, u, w) ==
    [v \in Workers |->
        IF v = w \/ workers[v].pc = "free" THEN workers[v]
        ELSE [Mark(workers[v], FALSE)
                 EXCEPT !.dirty = IF u \in workers[v].passed
                                  THEN @ \cup {u} ELSE @]]

\* the step after the range loop over a page
AfterLoop == IF hist.impl = "batch" THEN "exec" ELSE "page"

\* the step after a page: the next SCAN, or the end of the pass
AfterPage(x) ==
    IF x.cursor # 0 THEN "scan" ELSE IF x.job THEN "finish" ELSE "exit"

\* what the passes leave alone
PassFrame == UNCHANGED <<idp, idpVer, pc, op, loc, res, cancelled, group, hist, cb>>

\* cache.StartRemoveRoleJob called with a role: the record is persisted and
\* the worker goroutine started; a failed Set starts nothing.
Cleanup_StartJob(role) ==
    /\ FreeSlots # {}
    /\ \E storeOK \in BOOLEAN :
          IF storeOK
          THEN \E w \in FreeSlots :
                  /\ \A x \in FreeSlots : w <= x
                  /\ jobs' = [jobs EXCEPT ![w] = NewStatus(role)]
                  /\ wk' = [wk EXCEPT ![w] = SpawnedWorker(role)]
          ELSE UNCHANGED <<jobs, wk>>
    /\ UNCHANGED cache
    /\ PassFrame

\* RemoveRoleFromAllCaches called with a role: cursor 0, updated 0
RemoveRoleFromAllCaches(role) ==
    /\ \E w \in FreeSlots :
          /\ \A x \in FreeSlots : w <= x
          /\ wk' = [wk EXCEPT ![w] =
                [FreeWorker EXCEPT !.pc = "scan", !.role = role,
                                   !.atStart = {u \in Users : cache[u].present},
                                   !.orig = [u \in Users |-> Original(cache[u])]]]
    /\ UNCHANGED <<cache, jobs>>
    /\ PassFrame

\* runRemoveRoleJob, first lines: the running record is written once more
W_Start(w) ==
    /\ wk[w].pc = "start"
    /\ \E ok \in BOOLEAN :
          /\ jobs' = Update(w, wk[w], ok)
          /\ wk' = [wk EXCEPT ![w] = Mark([@ EXCEPT !.pc = "scan"], ok)]
    /\ UNCHANGED cache
    /\ PassFrame

\* rdb.Scan(cursor, "roles:*", 100): SCAN walks on by at least one slot and
\* returns the keys it finds there, possibly none, and the next cursor.
W_Scan(w) ==
    LET x == wk[w] IN
    /\ x.pc = "scan"
    /\ \E scanOK \in BOOLEAN, ok \in BOOLEAN, n \in 1..(Len(KeyOrder) - x.cursor) :
          /\ scanOK => ok
          /\ ~scanOK => n = 1
          /\ IF ~scanOK
             THEN Fail(w, x, "scan", ok)
             ELSE LET keys == PageKeys(x.cursor + 1, x.cursor + n)
                      cur == NextCursor(x.cursor + n)
                      y == [x EXCEPT !.keys = keys, !.cursor = cur, !.i = 1,
                                     !.vals = <<>>, !.pipe = <<>>,
                                     !.passed = @ \cup {KeyOrder[k] : k \in 1..(x.cursor + n)}]
                      next == IF hist.impl = "single"
                                 THEN (IF Len(keys) = 0 THEN "page" ELSE "get")
                              ELSE IF Len(keys) # 0 THEN "mget"
                              ELSE IF x.job THEN (IF cur = 0 THEN "finish" ELSE "mget")
                              ELSE (IF cur = 0 THEN "exit" ELSE "scan")
                  IN /\ wk' = [wk EXCEPT ![w] = [y EXCEPT !.pc = next]]
                     /\ UNCHANGED jobs
    /\ UNCHANGED cache
    /\ PassFrame

\* batch copy: rdb.MGet(keys...).  Without keys the command is an error.
W_MGet(w) ==
    LET x == wk[w] IN
    /\ x.pc = "mget"
    /\ \E mgetOK \in BOOLEAN, ok \in BOOLEAN :
          /\ mgetOK => ok
          /\ Len(x.keys) = 0 => ~mgetOK
          /\ IF ~mgetOK
             THEN Fail(w, x, IF Len(x.keys) = 0 THEN NoKeys ELSE "mget", ok)
             ELSE /\ wk' = [wk EXCEPT ![w] =
                        [x EXCEPT !.pc = "proc", !.i = 1,
                                  !.vals = [k \in 1..Len(x.keys) |-> cache[x.keys[k]]]]]
                  /\ UNCHANGED jobs
    /\ UNCHANGED cache
    /\ PassFrame

\* batch copy: one round of the range loop over vals.  A nil value is
\* skipped; a value holding the role is queued in the pipeline with the
\* expiration the TTL query gives.
W_Proc(w) ==
    LET x == wk[w]
        raw == x.vals[x.i]
        k == x.keys[x.i]
    IN
    /\ x.pc = "proc"
    /\ \E ttlOK \in BOOLEAN, ok \in BOOLEAN :
          LET removed == raw.present /\ Contains(raw.roles, x.role)
              cmd == [key |-> k,
                      val |-> Rewrite(raw, x.role, BatchTTL(cache[k], ttlOK),
                                      Remaining(cache[k], ttlOK))]
              y == IF removed THEN Rewrote([Seen(x) EXCEPT !.pipe = Append(@, cmd)])
                   ELSE Seen(x)
              z == [y EXCEPT !.i = @ + 1,
                             !.pc = IF x.i = Len(x.vals) THEN AfterLoop ELSE "proc"]
          IN /\ ~removed => ttlOK
             /\ ~(x.job /\ z.status.processed % ProgressEvery = 0) => ok
             /\ wk' = [wk EXCEPT ![w] = Mark(z, ttlOK /\ ok)]
             /\ jobs' = Progress(w, z, ok)
    /\ UNCHANGED cache
    /\ PassFrame

RECURSIVE ApplyPipe(_, _, _, _)
\* the first m queued Sets carried out on store c on behalf of pass w
ApplyPipe(c, pipe, m, n) ==
    IF n > m THEN c
    ELSE ApplyPipe([c EXCEPT ![pipe[n].key] = pipe[n].val], pipe, m, n + 1)

RECURSIVE TouchedAll(_, _, _, _, _)
TouchedAll(workers, pipe, m, n, w) ==
    IF n > m THEN workers
    ELSE TouchedAll(Touched(workers, pipe[n].key, w), pipe, m, n + 1, w)

\* batch copy: pipe.Exec, then update(status).  The queued Sets reach the
\* store together; when Exec fails any number of them may have been carried
\* out.  Exec of an empty pipeline does not fail.
W_Exec(w) ==
    LET x == wk[w] IN
    /\ x.pc = "exec"
    /\ \E execOK \in BOOLEAN, ok \in BOOLEAN, m \in 0..Len(x.pipe) :
          /\ execOK => m = Len(x.pipe)
          /\ Len(x.pipe) = 0 => execOK
          /\ cache' = ApplyPipe(cache, x.pipe, m, 1)
          /\ LET y == [Mark(x, execOK /\ ok)
                          EXCEPT !.pc = IF execOK THEN AfterPage(x) ELSE "exit",
                                !.pipe = <<>>, !.vals = <<>>, !.keys = <<>>,
                                !.applied = @ + m,
                                !.err = IF execOK THEN "" ELSE "exec",
                                !.status = IF execOK \/ ~x.job THEN @
                                           ELSE [@ EXCEPT !.status = "failed",
                                                          !.error = "exec",
                                                          !.finished = TRUE]]
             IN /\ wk' = TouchedAll([wk EXCEPT ![w] = y], x.pipe, m, 1, w)
                /\ jobs' = Update(w, y, ok)
                /\ ~x.job => ok
    /\ PassFrame

\* the range loop of the single copy moves to the next key, or past the page
NextKey(x) ==
    [x EXCEPT !.i = @ + 1, !.b = NoEntry, !.setTTL = 0,
              !.pc = IF x.i = Len(x.keys) THEN AfterLoop ELSE "get"]

\* single copy: rdb.Get(k) for the next key of the page.  redis.Nil skips
\* the key (a job writes its record first); another error ends the pass; a
\* value without the role is skipped; a value with the role goes on to TTL.
W_Get(w) ==
    LET x == Seen(wk[w])
        k == x.keys[x.i]
    IN
    /\ x.pc = "get"
    /\ \E getOK \in BOOLEAN, ok \in BOOLEAN :
          /\ getOK /\ ~x.job => ok
          /\ IF ~getOK
             THEN Fail(w, x, "get", ok)
             ELSE IF ~cache[k].present
             THEN /\ wk' = [wk EXCEPT ![w] = Mark(NextKey(x), ok)]
                  /\ jobs' = Update(w, x, ok)
             ELSE IF ~Contains(cache[k].roles, x.role)
             THEN /\ ~(x.job /\ x.status.processed % ProgressEvery = 0) => ok
                  /\ wk' = [wk EXCEPT ![w] = Mark(NextKey(x), ok)]
                  /\ jobs' = Progress(w, x, ok)
             ELSE /\ ok
                  /\ wk' = [wk EXCEPT ![w] = [x EXCEPT !.pc = "ttl", !.b = cache[k]]]
                  /\ UNCHANGED jobs
    /\ UNCHANGED cache
    /\ PassFrame

\* single copy: rdb.TTL(k) and the choice of setTTL.  (rem: the time left
\* the query looked at, kept in the value to be written.)
W_TTL(w) ==
    LET x == wk[w]
        k == x.keys[x.i]
    IN
    /\ x.pc = "ttl"
    /\ \E ttlOK \in BOOLEAN :
          wk' = [wk EXCEPT ![w] =
                    [Mark(x, ttlOK)
                        EXCEPT !.pc = "set",
                              !.setTTL = SingleTTL(cache[k], ttlOK),
                              !.b.rem = Remaining(cache[k], ttlOK)]]
    /\ UNCHANGED <<cache, jobs>>
    /\ PassFrame

\* single copy: rdb.Set(k, nb, setTTL); an error ends the pass
W_Set(w) ==
    LET x == wk[w]
        k == x.keys[x.i]
    IN
    /\ x.pc = "set"
    /\ \E setOK \in BOOLEAN, ok \in BOOLEAN :
          IF ~setOK
          THEN /\ Fail(w, x, "set", ok)
               /\ UNCHANGED cache
          ELSE LET y == [NextKey(Rewrote(x)) EXCEPT !.applied = @ + 1] IN
               /\ ~(x.job /\ y.status.processed % ProgressEvery = 0) => ok
               /\ cache' = [cache EXCEPT ![k] = Rewrite(x.b, x.role, x.setTTL, x.b.rem)]
               /\ wk' = Touched([wk EXCEPT ![w] = Mark(y, ok)], k, w)
               /\ jobs' = Progress(w, y, ok)
    /\ PassFrame

\* single copy: after the keys of a page a job writes its record; then the
\* next SCAN, or the end when the cursor is 0
W_Page(w) ==
    LET x == wk[w] IN
    /\ x.pc = "page"
    /\ \E ok \in BOOLEAN :
          /\ ~x.job => ok
          /\ jobs' = Update(w, x, ok)
          /\ wk' = [wk EXCEPT ![w] =
                Mark([x EXCEPT !.pc = AfterPage(x), !.keys = <<>>], ok)]
    /\ UNCHANGED cache
    /\ PassFrame

\* status.Status = "done"; status.FinishedAt = now; _ = update(status)
W_Finish(w) ==
    LET x == wk[w]
        y == [x EXCEPT !.pc = "exit", !.status.status = "done",
                       !.status.finished = TRUE]
    IN
    /\ x.pc = "finish"
    /\ \E ok \in BOOLEAN :
          /\ jobs' = Update(w, y, ok)
          /\ wk' = [wk EXCEPT ![w] = Mark(y, ok)]
    /\ UNCHANGED cache
    /\ PassFrame

\* GetJobStatus(jobID) by a client: the persisted record is read (seen keeps
\* the counters of the last record read)
GetJobStatus(w) ==
    /\ jobs[w].present
    /\ hist' = [hist EXCEPT !.seen[w] =
          [processed |-> jobs[w].processed, updated |-> jobs[w].updated]]
    /\ UNCHANGED <<storeVars, idp, idpVer, pc, op, loc, res, cancelled, group>>
    /\ UNCHANGED cb

\* Another operation stores a list for a user while passes run: the fill of
\* a GetUserRoles, with the list it fetched some time ago.
Env_SetRoles(u) ==
    /\ hist.env < MaxEnv
    /\ \E roles \in CachedLists :
          cache' = [cache EXCEPT ![u] = SetRoles(roles, CacheTTL, 0, 0)]
    /\ wk' = Touched(wk, u, 0)
    /\ hist' = [hist EXCEPT !.env = @ + 1]
    /\ UNCHANGED <<jobs, idp, idpVer, pc, op, loc, res, cancelled, group>>
    /\ UNCHANGED cb

\* Another operation invalidates a user's entry while passes run.
Env_InvalidateRoles(u) ==
    /\ hist.env < MaxEnv
    /\ cache[u].present
    /\ cache' = [cache EXCEPT ![u] = NoEntry]
    /\ wk' = Touched(wk, u, 0)
    /\ hist' = [hist EXCEPT !.env = @ + 1]
    /\ UNCHANGED <<jobs, idp, idpVer, pc, op, loc, res, cancelled, group>>
    /\ UNCHANGED cb

\* Time passes for a cached entry: less of its TTL is left.
Age(u) ==
    /\ cache[u].present
    /\ \E t \in TTLSteps :
          /\ t < cache[u].ttl
          /\ cache' = [cache EXCEPT ![u].ttl = t]
    /\ UNCHANGED <<jobs, wk, svcVars>>
    /\ UNCHANGED cb

InitCleanup ==
    /\ cache \in [Users -> {NoEntry} \cup
                    {StoreSet(l, "v1", t, 0, 0) : l \in CachedLists, t \in StartTTLs}]
    /\ jobs = [w \in Workers |-> NoJob]
    /\ wk = [w \in Workers |-> FreeWorker]
    /\ idp = [u \in Users |-> << <<"r2">> >>]
    /\ idpVer = [u \in Users |-> 0]
    /\ pc = [c \in Callers |-> "idle"]
    /\ op = [c \in Callers |-> NoOp]
    /\ loc = [c \in Callers |-> NoLoc]
    /\ res = [c \in Callers |-> NoRes]
    /\ cancelled = [c \in Callers |-> FALSE]
    /\ group = [u \in Users |-> NoCall]
    /\ \E impl \in {"batch", "single"} : hist = NoHist(impl, 1)
    /\ cb = NewCircuitBreaker

NextCleanup ==
    \/ \E role \in DeletedRoles :
          \/ Cleanup_StartJob(role)
          \/ RemoveRoleFromAllCaches(role)
    \/ \E w \in Workers :
          \/ W_Start(w)
          \/ W_Scan(w)
          \/ W_MGet(w)
          \/ W_Proc(w)
          \/ W_Exec(w)
          \/ W_Get(w)
          \/ W_TTL(w)
          \/ W_Set(w)
          \/ W_Page(w)
          \/ W_Finish(w)
          \/ GetJobStatus(w)
    \/ \E u \in Users :
          \/ Env_SetRoles(u)
          \/ Env_InvalidateRoles(u)
          \/ Age(u)
          \/ Expire(u)

SpecCleanup == InitCleanup /\ [][NextCleanup]_vars

(***************************************************************************)
(* Cleanup jobs side by side: up to two jobs, each for a role of Roles,    *)
(* over a cache that nothing else writes and where no entry runs out.      *)
(***************************************************************************)
\* the expirations the entries were stored with: 2.4 s, or none (an entry
\* that a pass of the batch copy has rewritten, or one persisted by hand)
JobExpirations == {2400, 0}
\* the list cached for a user at the start
JobLists == {<<"r1", "r2">>}

InitJobs ==
    /\ cache \in [Users -> {NoEntry} \cup
                    {StoreSet(l, "v1", t, 0, 0) : l \in JobLists, t \in JobExpirations}]
    /\ jobs = [w \in Workers |-> NoJob]
    /\ wk = [w \in Workers |-> FreeWorker]
    /\ idp = [u \in Users |-> << <<"r2">> >>]
    /\ idpVer = [u \in Users |-> 0]
    /\ pc = [c \in Callers |-> "idle"]
    /\ op = [c \in Callers |-> NoOp]
    /\ loc = [c \in Callers |-> NoLoc]
    /\ res = [c \in Callers |-> NoRes]
    /\ cancelled = [c \in Callers |-> FALSE]
    /\ group = [u \in Users |-> NoCall]
    /\ \E impl \in {"batch", "single"} : hist = NoHist(impl, 2)
    /\ cb = NewCircuitBreaker

NextJobs ==
    \/ \E role \in Roles : Cleanup_StartJob(role)
    \/ \E w \in Workers :
          \/ W_Start(w)
          \/ W_Scan(w)
          \/ W_MGet(w)
          \/ W_Proc(w)
          \/ W_Exec(w)
          \/ W_Get(w)
          \/ W_TTL(w)
          \/ W_Set(w)
          \/ W_Page(w)
          \/ W_Finish(w)

SpecJobs == InitJobs /\ [][NextJobs]_vars

(***************************************************************************)
(* The cache on its own: SetRoles, GetRoles and InvalidateRoles called on  *)
(* the redisCache while time passes and entries run out.                   *)
(***************************************************************************)
\* the lists SetRoles is called with: what the Upstream Client decoded from
\* the IdP's JSON (valid UTF-8, any order, repetitions kept)
StoreLists == {<<>>, <<"r1">>, <<"r2", "r1">>, <<"r2", "r1", "r2">>}
\* the ttl argument, in seconds: 0 asks for the default
StoreTTLs == {0, 60}

InitStore ==
    /\ cache = [u \in Users |-> NoEntry]
    /\ jobs = [w \in Workers |-> NoJob]
    /\ wk = [w \in Workers |-> FreeWorker]
    /\ idp = [u \in Users |-> << <<"r1", "r2">> >>]
    /\ idpVer = [u \in Users |-> 0]
    /\ pc = [c \in Callers |-> "idle"]
    /\ op = [c \in Callers |-> NoOp]
    /\ loc = [c \in Callers |-> NoLoc]
    /\ res = [c \in Callers |-> NoRes]
    /\ cancelled = [c \in Callers |-> FALSE]
    /\ group = [u \in Users |-> NoCall]
    /\ hist = NoHist("batch", 1)
    /\ cb = NewCircuitBreaker

\* what the calls on the bare cache leave alone
StoreFrame ==
    UNCHANGED <<jobs, wk, idp, idpVer, pc, op, loc, res, cancelled, group, cb>>

\* c.SetRoles(ctx, u, roles, ttl): rdb.Set of the JSON, or its error
Store_SetRoles(u) ==
    /\ hist.wclock < MaxPuts
    /\ \E roles \in StoreLists, ttl \in StoreTTLs, storeOK \in BOOLEAN :
          IF storeOK
          THEN /\ cache' = [cache EXCEPT ![u] = SetRoles(roles, ttl, 0, hist.wclock + 1)]
               /\ hist' = [hist EXCEPT !.wclock = @ + 1,
                                       !.put[u] = [n |-> hist.wclock + 1, roles |-> roles]]
          ELSE UNCHANGED <<cache, hist>>
    /\ StoreFrame

\* c.GetRoles(ctx, u): rdb.Get and json.Unmarshal, or the error of Get
Store_GetRoles(u) ==
    /\ \E storeOK \in BOOLEAN :
          hist' = [hist EXCEPT !.got[u] =
                      IF storeOK
                      THEN [n |-> cache[u].wid] @@ GetRoles(cache[u])
                      ELSE [n |-> 0, roles |-> <<>>, ok |-> FALSE, err |-> "store"]]
    /\ UNCHANGED cache
    /\ StoreFrame

\* c.InvalidateRoles(ctx, u): rdb.Del
Store_InvalidateRoles(u) ==
    /\ cache[u].present
    /\ cache' = [cache EXCEPT ![u] = NoEntry]
    /\ UNCHANGED hist
    /\ StoreFrame

NextStore ==
    \E u \in Users :
        \/ Store_SetRoles(u)
        \/ Store_GetRoles(u)
        \/ Store_InvalidateRoles(u)
        \/ Age(u)
        \/ Expire(u)

SpecStore == InitStore /\ [][NextStore]_vars

(***************************************************************************)
(* The Upstream Client's request path: doRequest runs the retrying HTTP    *)
(* client inside the circuit breaker (gobreaker.CircuitBreaker.Execute).   *)
(***************************************************************************)
\* the ReadyToTrip of NewHTTPClient
ReadyToTrip(counts) ==
    \/ counts.consecutiveFailures >= TripFailures
    \/ /\ counts.requests >= TripRequests
       /\ 2 * counts.totalFailures > counts.requests

\* setState / toNewGeneration: the counts are cleared, a new expiry is set
ToNewGeneration(b, state) ==
    [b EXCEPT !.state = state, !.generation = @ + 1, !.counts = NoCounts,
              !.due = FALSE,
              !.opened = IF state = "open" THEN b.generation + 1 ELSE @]

\* currentState(now): a closed breaker whose interval has passed starts a new
\* generation; an open breaker whose timeout has passed becomes half-open
CurrentState(b) ==
    IF ~b.due THEN b
    ELSE IF b.state = "closed" THEN ToNewGeneration(b, "closed")
    ELSE IF b.state = "open" THEN ToNewGeneration(b, "halfopen")
    ELSE b

\* counts.onSuccess, then the half-open breaker closes after enough successes
OnSuccess(b) ==
    LET n == [b EXCEPT !.counts.totalSuccesses = @ + 1,
                       !.counts.consecutiveSuccesses = @ + 1,
                       !.counts.consecutiveFailures = 0]
    IN IF b.state = "halfopen" /\ n.counts.consecutiveSuccesses >= CBMaxRequests
       THEN ToNewGeneration(n, "closed") ELSE n

\* counts.onFailure and the trip rule; a half-open breaker opens again
OnFailure(b) ==
    LET n == [b EXCEPT !.counts.totalFailures = @ + 1,
                       !.counts.consecutiveFailures = @ + 1,
                       !.counts.consecutiveSuccesses = 0]
    IN IF b.state = "halfopen" THEN ToNewGeneration(b, "open")
       ELSE IF ReadyToTrip(n.counts) THEN ToNewGeneration(n, "open")
       ELSE n

\* what the calls through the breaker leave alone
CallFrame ==
    UNCHANGED <<cache, jobs, wk, idp, idpVer, pc, op, loc, res, cancelled, group, hist>>

\* doRequest, cb.Execute, beforeRequest: an open breaker, and a half-open one
\* that has let in CBMaxRequests calls, reject the call; otherwise the call
\* is counted and gets the generation.
CB_Begin(c) ==
    LET b == CurrentState(cb) IN
    /\ cb.calls[c].pc = "idle"
    /\ cb.started < MaxCalls
    /\ IF \/ b.state = "open"
          \/ b.state = "halfopen" /\ b.counts.requests >= CBMaxRequests
       THEN cb' = [b EXCEPT !.started = @ + 1,
                            !.calls[c] = NoRequest]
       ELSE cb' = [b EXCEPT !.started = @ + 1,
                            !.counts.requests = @ + 1,
                            !.calls[c] = [NoRequest EXCEPT
                                             !.pc = "run",
                                             !.generation = b.generation,
                                             !.streak = cb.streak,
                                             !.probe = (b.state = "halfopen")]]
    /\ CallFrame

\* h.cli.Do(req), one HTTP attempt.  "ok": a response below 500 comes back;
\* "fail": a 5xx the retry policy does not retry (501), which the closure
\* turns into an error; "retry": a transport error or retried 5xx, after
\* which the client tries again unless RetryMax retries are used up.
CB_Attempt(c) ==
    LET r == cb.calls[c] IN
    /\ r.pc = "run"
    /\ \E outcome \in {"ok", "fail", "retry"} :
          cb' = [cb EXCEPT !.calls[c] =
                    [r EXCEPT !.attempts = @ + 1,
                              !.success = (outcome = "ok"),
                              !.pc = IF outcome = "retry" /\ r.attempts < RetryMax
                                     THEN "run" ELSE "after"]]
    /\ CallFrame

\* afterRequest(generation, err == nil): the outcome of a call of an older
\* generation is dropped; otherwise it is counted.  doRequest returns.
CB_End(c) ==
    LET r == cb.calls[c]
        b == CurrentState(cb)
        n == IF b.generation # r.generation THEN b
             ELSE IF r.success THEN OnSuccess(b) ELSE OnFailure(b)
    IN
    /\ r.pc = "after"
    /\ cb' = [n EXCEPT !.streak = IF r.success THEN 0 ELSE cb.streak + 1,
                       !.calls[c] = NoRequest]
    /\ CallFrame

\* The counting interval of the closed breaker (CB_INTERVAL) runs out.
IntervalElapsed ==
    /\ cb.state = "closed" /\ ~cb.due
    /\ cb.rolls < MaxRolls
    /\ cb' = [cb EXCEPT !.due = TRUE, !.rolls = @ + 1]
    /\ CallFrame

\* The timeout of the open breaker (CB_TIMEOUT) runs out.
TimeoutElapsed ==
    /\ cb.state = "open" /\ ~cb.due
    /\ cb' = [cb EXCEPT !.due = TRUE]
    /\ CallFrame

InitBreaker ==
    /\ cache = [u \in Users |-> NoEntry]
    /\ jobs = [w \in Workers |-> NoJob]
    /\ wk = [w \in Workers |-> FreeWorker]
    /\ idp = [u \in Users |-> << <<"r1", "r2">> >>]
    /\ idpVer = [u \in Users |-> 0]
    /\ pc = [c \in Callers |-> "idle"]
    /\ op = [c \in Callers |-> NoOp]
    /\ loc = [c \in Callers |-> NoLoc]
    /\ res = [c \in Callers |-> NoRes]
    /\ cancelled = [c \in Callers |-> FALSE]
    /\ group = [u \in Users |-> NoCall]
    /\ hist = NoHist("batch", 1)
    /\ cb = NewCircuitBreaker

NextBreaker ==
    \/ \E c \in Callers :
          \/ CB_Begin(c)
          \/ CB_Attempt(c)
          \/ CB_End(c)
    \/ IntervalElapsed
    \/ TimeoutElapsed

SpecBreaker == InitBreaker /\ [][NextBreaker]_vars

(***************************************************************************)
(* Properties of the Roles Service.                                        *)
(***************************************************************************)
\* callers inside the single-flight closure for user u (between the start of
\* fn and the moment the group forgets the key)
InFlight(u) == {c \in Callers : pc[c] \in {"fetch", "fill", "complete"} /\ op[c].u = u}

\* C1: for every user id at most one upstream fetch (one run of the
\* single-flight closure) is in flight at any moment, and every caller that
\* arrived while it was in flight is attached to it: it waits on the call the
\* group holds for the key, and that call is the running caller's.
C1_OneFetchInFlight ==
    \A u \in Users :
        /\ Cardinality(InFlight(u)) <= 1
        /\ \A f \in Callers :
              pc[f] = "wait" /\ op[f].u = u =>
                  /\ group[u].active
                  /\ group[u].fid = loc[f].fid
                  /\ \E c \in InFlight(u) : loc[c].fid = loc[f].fid

\* a leader is fetching for a user while another caller waits on its call
C1_Witness ==
    \E c, f \in Callers :
        /\ pc[c] = "fetch" /\ pc[f] = "wait"
        /\ op[c].u = op[f].u /\ loc[f].fid = loc[c].fid

\* C2: when every call of GetUserRoles(u) so far arrived during one cache
\* miss (each lookup found the store reachable and the entry absent, no
\* write, expiry, cancellation or store failure came between) and the
\* upstream never failed, then once all of them have returned the upstream
\* was asked for u exactly once.
C2_ExactlyOneUpstreamCall ==
    \A u \in Users :
        (/\ hist.miss[u] = "cold"
         /\ \A c \in Callers : op[c].kind = "GetUserRoles" => op[c].u # u)
        => hist.ucCalls[u] = 1

\* C3: the callers that were attached to one in-flight fetch all get the
\* leader's outcome: the same role list on success, the same error on failure.
C3_SameOutcome ==
    \A c, f \in Callers :
        (/\ res[c].kind = "GetUserRoles" /\ res[f].kind = "GetUserRoles"
         /\ res[c].fid # 0 /\ res[c].fid = res[f].fid)
        => /\ res[c].ok = res[f].ok
           /\ res[c].roles = res[f].roles
           /\ res[c].err = res[f].err

\* a leader and a caller that waited on its fetch have both returned
C3_Witness ==
    \E c, f \in Callers :
        /\ res[c].how = "leader" /\ res[f].how = "follower"
        /\ res[c].fid = res[f].fid /\ res[c].fid # 0

\* caller c ends a write operation in this step with an upstream error
FailsUpstream(c) ==
    /\ res'[c].kind \in WriteKinds
    /\ res'[c].id # res[c].id
    /\ res'[c].uerr # ""

\* C4: a write operation whose upstream call fails returns that error and
\* leaves the cache store as it was: no entry deleted, no job record written,
\* no worker started.
C4_FailedWriteTouchesNothing ==
    [][\A c \in Callers :
          FailsUpstream(c) =>
              /\ ~res'[c].ok
              /\ res'[c].err = res'[c].uerr
              /\ pc'[c] = "idle"
              /\ UNCHANGED <<cache, jobs, wk>>]_vars

\* a write has failed at the upstream while the user's entry is cached
C4_Witness ==
    \E c \in Callers, u \in Users :
        /\ res[c].kind \in WriteKinds /\ res[c].uerr # ""
        /\ res[c].u = u
        /\ cache[u].present

\* caller c's last result is a successful read of the user it last wrote
ReadAfterWrite(c) ==
    /\ hist.lastW[c].set
    /\ res[c].kind = "GetUserRoles" /\ res[c].ok
    /\ res[c].u = hist.lastW[c].u

Done(w) == wk[w].job /\ jobs[w].present /\ jobs[w].status = "done"

\* C6: when the persisted status of a job on role r is done, no key roles:*
\* that was present when the job was started holds a list with r, except a
\* key that another operation wrote after the job's SCAN had gone past it.
C6_DoneMeansRoleGone ==
    \A w \in Workers :
        Done(w) =>
            \A u \in wk[w].atStart :
                cache[u].present /\ Contains(cache[u].roles, wk[w].role)
                    => u \in wk[w].dirty

\* a job is done, and a key present at its start, which held the role and
\* which nothing else wrote since, holds the job's rewrite
C6_Witness ==
    \E w \in Workers, u \in Users :
        /\ Done(w)
        /\ u \in wk[w].atStart /\ u \notin wk[w].dirty
        /\ cache[u].present /\ cache[u].exp = 2000
        /\ ~Contains(cache[u].roles, wk[w].role)

\* C7: an entry that a cleanup pass rewrote, and that had time left when the
\* pass asked for its TTL, was stored with that time (to the second the TTL
\* command reports): not without expiration, not with another TTL.
C7_RewriteKeepsTTL ==
    \A u \in Users :
        cache[u].present /\ cache[u].rem > 0 =>
            /\ cache[u].exp > 0
            /\ cache[u].exp <= cache[u].rem + 500
            /\ cache[u].exp + 500 >= cache[u].rem

\* C9: of two successive records that GetJobStatus reads for a job, the
\* later has processed and updated at least as large as the earlier.
C9_ObservationsMonotone ==
    [][\A w \in Workers :
          /\ hist'.seen[w].processed >= hist.seen[w].processed
          /\ hist'.seen[w].updated >= hist.seen[w].updated]_vars

\* a client has read counters above zero and the record has moved on since
C9_Witness ==
    \E w \in Workers :
        /\ hist.seen[w].processed > 0
        /\ hist.seen[w].updated > 0
        /\ jobs[w].processed > hist.seen[w].processed

\* C10: once the worker of a job has left runRemoveRoleJob, the persisted
\* status of the job is done or failed.
C10_EndsTerminal ==
    \A w \in Workers :
        wk[w].job /\ wk[w].pc = "exit" => jobs[w].status \in {"done", "failed"}

(***************************************************************************)
(* Properties of an undisturbed cleanup job.                               *)
(***************************************************************************)
\* the worker of job w has left runRemoveRoleJob; no store command failed
\* on it and nothing else changed the cache since the job was started
Quiet(w) == wk[w].job /\ wk[w].pc = "exit" /\ wk[w].calm

\* the keys that held an entry when pass w was started
Held(w) == {u \in Users : wk[w].orig[u].present}

\* C11: a job for role r that ran with no concurrent writer and no store
\* error over N entries, K of them holding r, has the persisted record
\* processed = N, updated = K, status done, and every entry holds its
\* original list without r.
C11_QuietJobCounts ==
    \A w \in Workers :
        Quiet(w) =>
            /\ jobs[w].status = "done"
            /\ jobs[w].processed = Cardinality(Held(w))
            /\ jobs[w].updated =
                  Cardinality({u \in Held(w) : Contains(wk[w].orig[u].roles, wk[w].role)})
            /\ \A u \in Held(w) :
                  /\ cache[u].present
                  /\ cache[u].roles = Without(wk[w].orig[u].roles, wk[w].role)

\* no entry held the role of pass w when the pass was started
NoHolder(w) ==
    \A u \in Held(w) : ~Contains(wk[w].orig[u].roles, wk[w].role)

\* C12: a job for a role that no cached list holds (a job repeated after a
\* first one for the same role among them), run with no concurrent writer
\* and no store error, has the persisted record updated = 0, status done,
\* and leaves every entry as it was: value, expiry, and no write at all.
C12_NoHolderNoChange ==
    \A w \in Workers :
        Quiet(w) /\ NoHolder(w) =>
            /\ jobs[w].status = "done"
            /\ jobs[w].updated = 0
            /\ \A u \in Users : Original(cache[u]) = wk[w].orig[u]


(***************************************************************************)
(* Properties of cleanup jobs side by side.                                *)
(***************************************************************************)
\* C13: when two jobs for different roles have run with no other writer and
\* both persisted records say done, no cached entry holds either role.
C13_BothRolesGone ==
    \A v \in Workers, w \in Workers :
        Done(v) /\ Done(w) /\ wk[v].role # wk[w].role =>
            \A u \in Users :
                cache[u].present =>
                    /\ ~Contains(cache[u].roles, wk[v].role)
                    /\ ~Contains(cache[u].roles, wk[w].role)


(***************************************************************************)
(* Properties of the read path under store errors.                         *)
(***************************************************************************)
\* C14: no error of the cache store fails GetUserRoles once the upstream has
\* answered.  A GetUserRoles that returns from its lookup returns a hit (an
\* error of GetRoles goes on to the fetch as a miss does); SetRoles, failed
\* or not, leaves fn's roles and nil error as the fetch set them; and the
\* leader then returns exactly those roles and no error.
C14_StoreErrorsNeverFail ==
    [][\A c \in Callers :
          /\ pc[c] = "idle" /\ res'[c] # res[c] /\ res'[c].kind = "GetUserRoles"
                => res'[c].ok /\ res'[c].err = ""
          /\ pc[c] = "fill" /\ pc'[c] # "fill"
                => pc'[c] = "complete" /\ loc'[c] = loc[c] /\ loc[c].err = ""
          /\ pc[c] = "complete" /\ loc[c].err = "" /\ pc'[c] = "idle"
                => /\ res'[c].ok /\ res'[c].err = ""
                   /\ res'[c].roles = loc[c].roles]_vars

\* a read whose lookup met no entry has returned the fetched roles as the
\* leader although no SetRoles has ever succeeded
C14_Witness ==
    \E c \in Callers :
        /\ res[c].kind = "GetUserRoles" /\ res[c].how = "leader"
        /\ res[c].ok /\ res[c].roles = <<"r1", "r2">>
        /\ hist.wclock = 0
        /\ ~cache[res[c].u].present


C16_EmptyListIsNoOp ==
    [][\A c \in Callers :
          /\ pc[c] = "idle"
          /\ \/ op'[c].kind = "AssignRolesToUser" /\ op'[c].rs = <<>>
             \/ /\ res'[c] # res[c]
                /\ res'[c].kind = "AssignRolesToUser" /\ res'[c].how = "noop"
          => /\ pc'[c] = "idle"
             /\ res'[c].ok /\ res'[c].err = "" /\ res'[c].uerr = ""
             /\ hist'.ucCalls = hist.ucCalls
             /\ UNCHANGED <<cache, jobs, wk, idp, idpVer>>]_vars

\* a call with an empty list has returned and the user's entry, stored by an
\* earlier fill, is still cached
C16_Witness ==
    \E c \in Callers :
        /\ res[c].kind = "AssignRolesToUser" /\ res[c].how = "noop" /\ res[c].ok
        /\ cache[res[c].u].present
        /\ cache[res[c].u].wid > 0 /\ cache[res[c].u].wid = hist.wclock


(***************************************************************************)
(* Properties of the rewrite under the sentinels of the TTL command.       *)
(***************************************************************************)
\* C17: no entry in the store was written by a cleanup pass whose TTL query
\* reported that the key was missing: such an entry is skipped and a deleted
\* entry is not created again.
C17_MissingKeyNotRewritten ==
    \A u \in Users : cache[u].present => cache[u].rem # KeyMissing

\* C18: an entry written by a cleanup pass whose TTL query reported no
\* expiration is stored with no expiration.
C18_NoExpiryKept ==
    \A u \in Users :
        cache[u].present /\ cache[u].rem = NoExpiry
            => cache[u].ttl = NoExpiry /\ cache[u].exp = 0


(***************************************************************************)
(* Properties of the persisted job records.                                *)
(***************************************************************************)
\* C19: every persisted CleanupJob record has processed >= updated >= 0 and
\* a status of running, done or failed; a record that says done or failed
\* has finished_at set, and a record that says failed has an error text.
C19_RecordWellFormed ==
    \A w \in Workers :
        jobs[w].present =>
            /\ jobs[w].processed >= jobs[w].updated
            /\ jobs[w].updated >= 0
            /\ jobs[w].status \in {"running", "done", "failed"}
            /\ jobs[w].status \in {"done", "failed"} => jobs[w].finished
            /\ jobs[w].status = "failed" => jobs[w].error # ""

\* a record persisted as failed after the job had rewritten an entry
C19_Witness ==
    \E w \in Workers :
        /\ jobs[w].present /\ jobs[w].status = "failed"
        /\ jobs[w].finished /\ jobs[w].error # ""
        /\ jobs[w].updated > 0


\* C20: once a store command of a job's worker loop has failed (SCAN, the
\* batch read or Get, the write of the rewritten entries), the persisted
\* record of the job says failed, with the error text and finished_at.
C20_FailurePersisted ==
    \A w \in Workers :
        wk[w].job /\ wk[w].err # "" =>
            /\ jobs[w].status = "failed"
            /\ jobs[w].error = wk[w].err
            /\ jobs[w].finished


(***************************************************************************)
(* Properties of the circuit breaker.                                      *)
(***************************************************************************)
\* C8: after 5 failed operations in a row the breaker has tripped (it is
\* open, or half-open once its timeout has run out), and a call begun after
\* them is rejected without an HTTP request unless it is let in as a probe
\* of the half-open breaker.
C8_TripsAfterFive ==
    /\ cb.streak >= TripFailures => cb.state # "closed"
    /\ \A c \in Callers :
          cb.calls[c].pc # "idle" /\ cb.calls[c].streak >= TripFailures
              => cb.calls[c].probe

\* a call of doRequest by c ends in this step: afterRequest runs
Ends(c) == cb.calls[c].pc = "after" /\ cb'.calls[c].pc = "idle"

\* the call of c has failed with every retry of the HTTP client used up
Exhausted(c) == ~cb.calls[c].success /\ cb.calls[c].attempts = RetryMax + 1

\* C21: an operation that fails after all its HTTP retries counts as one
\* failure of the breaker: when it ends, the breaker's failures go up by
\* one, total and in a row, or that one failure opens the breaker (which
\* clears the counts), whatever the number of attempts.  (A breaker that
\* has opened since the operation began has no use for the failure.)
C21_OneFailurePerOperation ==
    [][\A c \in Callers :
          Ends(c) /\ Exhausted(c) =>
             \/ /\ cb'.counts.totalFailures = cb.counts.totalFailures + 1
                /\ cb'.counts.consecutiveFailures = cb.counts.consecutiveFailures + 1
             \/ cb'.state = "open" /\ cb'.generation > cb.generation
             \/ cb.opened > cb.calls[c].generation]_vars

(***************************************************************************)
(* Properties of the read path under upstream errors.                      *)
(***************************************************************************)
\* C22: a 4xx answer of the IdP is not retried: no caller whose upstream
\* call was answered with a 4xx is about to make another upstream attempt
\* for the same operation.
C22_NoRetryAfter4xx ==
    \A c \in Callers : pc[c] = "fetch" => loc[c].last # "4xx"

(***************************************************************************)
(* Properties of the breaker's recovery.                                   *)
(***************************************************************************)
\* the call of c that ends is a probe of the breaker's present half-open
\* generation
Probe(c) ==
    /\ cb.calls[c].probe
    /\ cb.state = "halfopen" /\ cb.calls[c].generation = cb.generation

\* C23: once the timeout of the open breaker has run out, the breaker lets
\* probes through, at most CBMaxRequests of them; one probe that succeeds
\* closes the breaker, one probe that fails opens it again.
C23_OneProbeDecides ==
    [][\A c \in Callers :
          /\ Ends(c) /\ Probe(c) =>
                IF cb.calls[c].success THEN cb'.state = "closed"
                ELSE cb'.state = "open"
          /\ cb'.calls[c].probe /\ ~cb.calls[c].probe =>
                /\ (cb.state = "open" /\ cb.due) \/ cb.state = "halfopen"
                /\ cb'.counts.requests <= CBMaxRequests]_vars

NoDuplicates(roles) ==
    \A i \in 1..Len(roles), j \in 1..Len(roles) : i # j => roles[i] # roles[j]

\* C25: every value stored under a roles:* key has version "v1" and a role
\* list in which no role key occurs twice.
C25_SnapshotWellFormed ==
    \A u \in Users :
        cache[u].present =>
            cache[u].version = "v1" /\ NoDuplicates(cache[u].roles)

\* C26: once the InvalidateRoles(u) of caller c's successful write W has
\* completed, the cache holds no roles:u entry that was filled after the
\* invalidation with a role list fetched from upstream before W (an entry
\* whose upstream version is older than the version W produced)
C26_NoStaleFillAfterWrite ==
    \A c \in Callers :
        hist.lastW[c].set =>
            LET u == hist.lastW[c].u IN
            cache[u].present /\ cache[u].wid > hist.lastW[c].mark =>
                cache[u].ver >= hist.lastW[c].ver

\* the value pass w read for key u, from which its queued or pending write
\* of u is derived (vals of MGet in the batch copy, b of Get in the other)
ReadBy(w, u) ==
    IF wk[w].pc = "set" THEN wk[w].b
    ELSE wk[w].vals[CHOOSE k \in 1..Len(wk[w].keys) : wk[w].keys[k] = u]

\* this step carries out pass w's write of key u: the Set of the per-key
\* copy, or a queued Set of the pipeline that Exec applied
Writes(w, u) ==
    \/ /\ wk[w].pc = "set"
       /\ wk[w].keys[wk[w].i] = u
       /\ wk'[w].pc \in {"get", "page"}
    \/ /\ wk[w].pc = "exec"
       /\ cache'[u] # cache[u]
       /\ \E n \in 1..Len(wk[w].pipe) :
             wk[w].pipe[n].key = u /\ cache'[u] = wk[w].pipe[n].val

\* C27: a rewrite of a cleanup pass replaces the value the pass read: when
\* the write of roles:u is applied while the key is present, the list stored
\* under the key is still the list the pass read (no SetRoles of another
\* operation has put a different list there since, to be replaced by the
\* list derived from the stale read)
C27_RewriteNeverClobbers ==
    [][\A w \in Workers, u \in Users :
          Writes(w, u) /\ cache[u].present =>
              cache[u].roles = ReadBy(w, u).roles]_vars

\* C28: a SCAN page without keys and with a non-zero cursor neither fails
\* nor ends a cleanup job: a job on which no store command was failed (and
\* whose cache nothing else changed) has not failed, and a job whose status
\* is done has walked until the cursor came back to 0
C28_EmptyPageGoesOn ==
    \A w \in Workers :
        wk[w].job =>
            /\ wk[w].calm => wk[w].status.status # "failed"
            /\ wk[w].status.status = "done" => wk[w].cursor = 0

\* C29: the updated counter never exceeds the number of rewrites the store
\* has carried out for the pass: neither in the persisted record of a job
\* nor in the value RemoveRoleFromAllCaches returns, a failing batched write
\* included
C29_UpdatedCountsAppliedWrites ==
    \A w \in Workers :
        /\ wk[w].job => jobs[w].updated <= wk[w].applied
        /\ ~wk[w].job /\ wk[w].pc = "exit" => wk[w].updated <= wk[w].applied

\* this step is caller c's call of zitadel.RemoveRoleFromUser returning nil
Removed(c) ==
    /\ pc[c] = "idle"
    /\ pc'[c] = "inv"
    /\ op'[c].kind = "RemoveRoleFromUser"

\* C30: a successful RemoveRoleFromUser(r, u) of the Upstream Client removes
\* exactly role r from the roles of u at the IdP: the flattened role list of
\* u's grants after the call is the list before it without any occurrence
\* of r
C30_RemovesExactlyTheRole ==
    [][\A c \in Callers :
          Removed(c) =>
              Flatten(idp'[op'[c].u]) =
                  Without(Flatten(idp[op'[c].u]), op'[c].r)]_vars

====
